---- MODULE Spec2Model ----
(***************************************************************************)
(* A model of concat-rs (src/concat-rs/src/main.rs): the wildcard matcher, *)
(* the filter predicate, the recursive traversal, the tree renderer, the   *)
(* XML escaping and the run of main over a small filesystem.               *)
(*                                                                         *)
(* Text is a sequence of one-character strings: "*.rs" is                  *)
(* <<"*", ".", "r", "s">>.  A path is a sequence of components, each a     *)
(* text; its string form joins the components with "/".                    *)
(***************************************************************************)
EXTENDS Naturals, Integers, Sequences, FiniteSets, TLC

VARIABLES
    arg,       \* the inputs of the function under call (pure-function specifications)
    ret,       \* its result, NoRet before the call
    fs,        \* the filesystem: real path -> node
    snapshot,  \* the filesystem as it was when the run started
    opts,      \* the resolved Options of main
    pc,        \* main's position
    root_i,    \* index of the root main's gather loop is at
    stack,     \* gather_files' recursion: frames of [path, entries still to visit]
    files,     \* main's `files` vector
    file_i,    \* index of the file main's write loop is at
    writer     \* the BufWriter: [open, path, buf]

vars == <<arg, ret, fs, snapshot, opts, pc, root_i, stack, files, file_i, writer>>

----------------------------------------------------------------------------
(* Bounds of the model *)

MaxPatLen == 2        \* longest pattern of the filter specification
MaxNameLen == 3       \* longest base name of the filter specification
MaxMatchLen == 3      \* longest pattern and text of the matcher specification
MaxTextLen == 4       \* longest text given to escape_xml

----------------------------------------------------------------------------
(* Text helpers: the std::str operations the program uses *)

NoRet == "none"
None == <<"None">>          \* Option::None; Some(x) is <<"Some", x>>
Some(x) == <<"Some", x>>

SeqsUpTo(S, n) == UNION {[1..k -> S] : k \in 0..n}

Perms(S) == {p \in [1..Cardinality(S) -> S] : \A i, j \in 1..Cardinality(S) : p[i] = p[j] => i = j}

Drop(s, n) == SubSeq(s, n + 1, Len(s))

starts_with(s, p) == Len(p) <= Len(s) /\ SubSeq(s, 1, Len(p)) = p

ends_with(s, p) == Len(p) <= Len(s) /\ SubSeq(s, Len(s) - Len(p) + 1, Len(s)) = p

OccursAt(s, p, i) == i + Len(p) <= Len(s) /\ SubSeq(s, i + 1, i + Len(p)) = p

\* str::find: the byte offset of the first occurrence, or -1 for Option::None
find(s, p) ==
    LET hits == {i \in 0..Len(s) : OccursAt(s, p, i)}
    IN  IF hits = {} THEN -1 ELSE CHOOSE i \in hits : \A j \in hits : i <= j

\* str::split(c): the pieces between the occurrences of the character c
RECURSIVE split(_, _)
split(s, c) ==
    LET at == find(s, <<c>>)
    IN  IF at = -1 THEN <<s>>
        ELSE <<SubSeq(s, 1, at)>> \o split(Drop(s, at + 1), c)

\* str::replace(from, to): every non-overlapping occurrence, left to right
RECURSIVE replace(_, _, _)
replace(s, from, to) ==
    IF s = <<>> THEN <<>>
    ELSE IF OccursAt(s, from, 0) THEN to \o replace(Drop(s, Len(from)), from, to)
    ELSE <<Head(s)>> \o replace(Tail(s), from, to)

RECURSIVE Join(_, _)
Join(parts, sep) ==
    IF parts = <<>> THEN <<>>
    ELSE IF Len(parts) = 1 THEN parts[1]
    ELSE parts[1] \o sep \o Join(Tail(parts), sep)

RECURSIVE Concat(_)
Concat(ss) == IF ss = <<>> THEN <<>> ELSE Head(ss) \o Concat(Tail(ss))

----------------------------------------------------------------------------
(* matches_pattern, main.rs 32-56 *)

\* the body of `for part in pattern.split('*')` and the check after the loop
RECURSIVE match_parts(_, _, _, _)
match_parts(pattern, parts, rest, first) ==
    IF parts = <<>>
    THEN ~(~ends_with(pattern, <<"*">>) /\ rest # <<>>)
    ELSE LET part == Head(parts)
             at   == find(rest, part)
         IN  IF part = <<>> THEN match_parts(pattern, Tail(parts), rest, first)
             ELSE IF at = -1 THEN FALSE
             ELSE IF first /\ ~starts_with(pattern, <<"*">>) /\ at # 0 THEN FALSE
             ELSE match_parts(pattern, Tail(parts), Drop(rest, at + Len(part)), FALSE)

matches_pattern(pattern, text) ==
    IF pattern = <<"*">> THEN TRUE
    ELSE match_parts(pattern, split(pattern, "*"), text, TRUE)

----------------------------------------------------------------------------
(* Path helpers: std::path::Path as the program uses it *)

CurDir == <<".">>
ParentDir == <<".", ".">>

\* Path::file_name: the last component when it is a normal one
file_name(path) ==
    IF path = <<>> \/ path[Len(path)] \in {CurDir, ParentDir} THEN None
    ELSE Some(path[Len(path)])

LastDot(name) == CHOOSE i \in 1..Len(name) : name[i] = "." /\ \A j \in (i+1)..Len(name) : name[j] # "."

\* extension with a fault: the text after the last `.`, a leading one included
extension_any_dot(path) ==
    IF file_name(path) = None THEN None
    ELSE LET name == file_name(path)[2]
         IN  IF ~\E i \in 1..Len(name) : name[i] = "." THEN None
             ELSE Some(Drop(name, LastDot(name)))

\* Path::extension: None without a file name, without a `.`, or when the only
\* `.` is the first character; otherwise the text after the last `.`
extension(path) ==
    IF file_name(path) = None THEN None
    ELSE LET name == file_name(path)[2]
         IN  IF ~\E i \in 1..Len(name) : name[i] = "." THEN None
             ELSE IF LastDot(name) = 1 THEN None
             ELSE Some(Drop(name, LastDot(name)))

\* Path::to_string_lossy / display
path_str(path) == Join(path, <<"/">>)

\* Path::join / DirEntry::path
join(path, name) == Append(path, name)

InSeq(x, s) == \E i \in 1..Len(s) : s[i] = x

AnyMatch(patterns, text) == \E i \in 1..Len(patterns) : matches_pattern(patterns[i], text)

----------------------------------------------------------------------------
(* should_include, main.rs 58-92 *)

\* should_include with a fault: an include match lets the path through
should_include_include_wins(path, o) ==
    IF ~o.hidden /\ file_name(path) # None /\ starts_with(file_name(path)[2], <<".">>)
    THEN FALSE
    ELSE IF o.exts # <<>> /\ (extension(path) = None \/ ~InSeq(extension(path)[2], o.exts))
    THEN FALSE
    ELSE IF o.includes # <<>>
    THEN AnyMatch(o.includes, path_str(path))
    ELSE ~AnyMatch(o.excludes, path_str(path))

should_include(path, o) ==
    IF ~o.hidden /\ file_name(path) # None /\ starts_with(file_name(path)[2], <<".">>)
    THEN FALSE
    ELSE IF o.exts # <<>> /\ (extension(path) = None \/ ~InSeq(extension(path)[2], o.exts))
    THEN FALSE
    ELSE IF o.includes # <<>> /\ ~AnyMatch(o.includes, path_str(path))
    THEN FALSE
    ELSE IF AnyMatch(o.excludes, path_str(path))
    THEN FALSE
    ELSE TRUE

----------------------------------------------------------------------------
(* escape_xml, main.rs 136-140 *)

Amp == <<"&">>
Lt == <<"<">>
Gt == <<">">>
AmpEntity == <<"&", "a", "m", "p", ";">>
LtEntity == <<"&", "l", "t", ";">>
GtEntity == <<"&", "g", "t", ";">>

\* escape_xml with a fault: the ampersands are replaced last
escape_xml_amp_last(text) ==
    replace(replace(replace(text, Lt, LtEntity), Gt, GtEntity), Amp, AmpEntity)

escape_xml(text) ==
    replace(replace(replace(text, Amp, AmpEntity), Lt, LtEntity), Gt, GtEntity)

----------------------------------------------------------------------------
(* The filesystem the program runs on.                                     *)
(* fs maps the real path of every node (its names from the working         *)
(* directory, <<>>) to [kind, content, entries, readable, target]:         *)
(*   kind "file": content is its text;                                     *)
(*   kind "dir": entries are its children's names in the order the         *)
(*     filesystem enumerates them, readable whether it may be listed;      *)
(*   kind "link": a symbolic link to the real path target.                 *)

MaxLinks == 2         \* symbolic links one path resolution may follow (ELOOP after)
BufCap == 3           \* capacity of the BufWriter (std's DEFAULT_BUF_SIZE, scaled)
MaxRoots == 2         \* most roots on the command line

FileNode(c) == [kind |-> "file", content |-> c, entries |-> <<>>, readable |-> TRUE, target |-> <<>>]
DirNode(es, r) == [kind |-> "dir", content |-> <<>>, entries |-> es, readable |-> r, target |-> <<>>]
LinkNode(t) == [kind |-> "link", content |-> <<>>, entries |-> <<>>, readable |-> TRUE, target |-> t]

Failed == [ok |-> FALSE, node |-> <<>>]

\* the kernel's path resolution from the working directory: every symbolic
\* link on the way is followed, at most `budget` of them
RECURSIVE resolve(_, _, _, _)
resolve(f, cur, comps, budget) ==
    IF comps = <<>> THEN [ok |-> TRUE, node |-> cur]
    ELSE IF f[cur].kind # "dir" THEN Failed
    ELSE IF Head(comps) = CurDir THEN resolve(f, cur, Tail(comps), budget)
    ELSE LET child == Append(cur, Head(comps))
         IN  IF child \notin DOMAIN f THEN Failed
             ELSE IF f[child].kind = "link"
             THEN IF budget = 0 THEN Failed
                  ELSE resolve(f, <<>>, f[child].target \o Tail(comps), budget - 1)
             ELSE resolve(f, child, Tail(comps), budget)

\* fs::metadata, which Path::is_file and Path::is_dir call: follows links
metadata(f, path) == resolve(f, <<>>, path, MaxLinks)

is_file(f, path) == metadata(f, path).ok /\ f[metadata(f, path).node].kind = "file"

is_dir(f, path) == metadata(f, path).ok /\ f[metadata(f, path).node].kind = "dir"

\* fs::read_dir and the entries' DirEntry::path, in enumeration order
read_dir(f, path) ==
    LET m == metadata(f, path)
    IN  IF ~m.ok \/ f[m.node].kind # "dir" \/ ~f[m.node].readable
        THEN [ok |-> FALSE, entries |-> <<>>]
        ELSE [ok |-> TRUE,
              entries |-> [i \in 1..Len(f[m.node].entries) |-> join(path, f[m.node].entries[i])]]

\* fs::read_to_string
read_to_string(f, path) ==
    LET m == metadata(f, path)
    IN  IF m.ok /\ f[m.node].kind = "file"
        THEN [ok |-> TRUE, content |-> f[m.node].content]
        ELSE [ok |-> FALSE, content |-> <<>>]

----------------------------------------------------------------------------
(* write_tree, main.rs 117-134 *)

\* the characters of the model's names in the order of their byte values
ByteOrder == <<" ", "-", ".", "/", "_", "a", "b", "c", "d", "e", "h", "l", "m",
               "n", "o", "p", "r", "t", "u", "x">>
Byte(c) == CHOOSE i \in 1..Len(ByteOrder) : ByteOrder[i] = c

\* OsStr's Ord: byte by byte, a proper prefix first
RECURSIVE text_lt(_, _)
text_lt(a, b) ==
    IF b = <<>> THEN FALSE
    ELSE IF a = <<>> THEN TRUE
    ELSE IF Head(a) # Head(b) THEN Byte(Head(a)) < Byte(Head(b))
    ELSE text_lt(Tail(a), Tail(b))

\* PathBuf's Ord: component by component
RECURSIVE path_lt(_, _)
path_lt(p, q) ==
    IF q = <<>> THEN FALSE
    ELSE IF p = <<>> THEN TRUE
    ELSE IF Head(p) # Head(q) THEN text_lt(Head(p), Head(q))
    ELSE path_lt(Tail(p), Tail(q))

\* a stable insertion of e into the sorted es
RECURSIVE insert_by_path(_, _)
insert_by_path(e, es) ==
    IF es = <<>> THEN <<e>>
    ELSE IF path_lt(e, Head(es)) THEN <<e>> \o es
    ELSE <<Head(es)>> \o insert_by_path(e, Tail(es))

\* sort_by_path with a fault: the entries stay in enumeration order
sort_by_path_unsorted(es) == es

\* entries.sort_by_key(|e| e.path()), main.rs 120: a stable sort
RECURSIVE sort_by_path(_)
sort_by_path(es) ==
    IF es = <<>> THEN <<>>
    ELSE insert_by_path(es[Len(es)], sort_by_path(SubSeq(es, 1, Len(es) - 1)))

NewLine == <<"\n">>
TreeHeader == <<"D", "i", "r", "e", "c", "t", "o", "r", "y", " ", "t", "r", "e", "e", ":", "\n">>

\* walk, main.rs 118-131: [ok, out], out the pieces written until the first
\* error, each piece one write_all of the writer
RECURSIVE tree_walk(_, _, _)
RECURSIVE tree_entries(_, _, _)
tree_walk(f, dir, prefix) ==
    IF ~read_dir(f, dir).ok THEN [ok |-> FALSE, out |-> <<>>]
    ELSE tree_entries(f, sort_by_path(read_dir(f, dir).entries), prefix)

\* the loop of walk, main.rs 121-129
tree_entries(f, entries, prefix) ==
    IF entries = <<>> THEN [ok |-> TRUE, out |-> <<>>]
    ELSE LET path == Head(entries)
             line == <<prefix, file_name(path)[2], NewLine>>
             sub  == IF is_dir(f, path) THEN tree_walk(f, path, prefix \o <<" ", " ">>)
                     ELSE [ok |-> TRUE, out |-> <<>>]
         IN  IF ~sub.ok THEN [ok |-> FALSE, out |-> line \o sub.out]
             ELSE LET rest == tree_entries(f, Tail(entries), prefix)
                  IN  [ok |-> rest.ok, out |-> line \o sub.out \o rest.out]

write_tree(f, root) ==
    LET w == tree_walk(f, root, <<>>)
    IN  [ok |-> w.ok, out |-> <<TreeHeader>> \o w.out]

----------------------------------------------------------------------------
(* The state before main has run, and a call of a pure function *)

NoOpts == [exts |-> <<>>, includes |-> <<>>, excludes |-> <<>>, hidden |-> FALSE,
           tree |-> FALSE, text |-> FALSE, output |-> None, inputs |-> <<>>]

NoWriter == [created |-> FALSE, node |-> <<>>, buf |-> <<>>]

MainAtRest ==
    /\ snapshot = fs
    /\ opts = NoOpts
    /\ root_i = 0
    /\ stack = <<>>
    /\ files = <<>>
    /\ file_i = 0
    /\ writer = NoWriter

NoFs == [p \in {<<>>} |-> DirNode(<<>>, TRUE)]

Return(value) ==
    /\ pc = "call"
    /\ pc' = "returned"
    /\ ret' = value
    /\ UNCHANGED <<arg, fs, snapshot, opts, root_i, stack, files, file_i, writer>>

----------------------------------------------------------------------------
(* BufWriter<File>, as main uses it *)

\* BufWriter::write_all on [buf, disk]: buf the bytes held back, disk the
\* bytes that reached the file
write_all(w, data) ==
    IF Len(data) < BufCap - Len(w.buf)
    THEN [buf |-> w.buf \o data, disk |-> w.disk]
    ELSE LET flushed == IF Len(data) > BufCap - Len(w.buf)
                        THEN [buf |-> <<>>, disk |-> w.disk \o w.buf]
                        ELSE w
         IN  IF Len(data) >= BufCap
             THEN [buf |-> flushed.buf, disk |-> flushed.disk \o data]
             ELSE [buf |-> flushed.buf \o data, disk |-> flushed.disk]

\* write_fmt: one write_all for each piece of the formatted text
RECURSIVE write_pieces(_, _)
write_pieces(w, pieces) ==
    IF pieces = <<>> THEN w
    ELSE write_pieces(write_all(w, Head(pieces)), Tail(pieces))

\* BufWriter's drop (and flush): what is held back reaches the file
flush(w) == [buf |-> <<>>, disk |-> w.disk \o w.buf]

InsertAt(s, i, x) == SubSeq(s, 1, i - 1) \o <<x>> \o SubSeq(s, i, Len(s))

CreateFailed == [ok |-> FALSE, fs |-> <<>>, node |-> <<>>]

\* File::create: the outcomes of creating or truncating `path`.  A new name
\* may land anywhere in its directory's enumeration order.  An existing link
\* is followed (a dangling one is taken as an error: no filesystem of the
\* model has a link at the output path).
file_create(f, path) ==
    LET parent == resolve(f, <<>>, SubSeq(path, 1, Len(path) - 1), MaxLinks)
        node   == Append(parent.node, path[Len(path)])
    IN  IF ~parent.ok \/ f[parent.node].kind # "dir" THEN {CreateFailed}
        ELSE IF node \notin DOMAIN f
        THEN {[ok |-> TRUE, node |-> node,
               fs |-> (node :> FileNode(<<>>))
                      @@ [f EXCEPT ![parent.node].entries = InsertAt(@, i, path[Len(path)])]] :
                 i \in 1..(Len(f[parent.node].entries) + 1)}
        ELSE IF is_file(f, path)
        THEN {[ok |-> TRUE, node |-> metadata(f, path).node,
               fs |-> [f EXCEPT ![metadata(f, path).node].content = <<>>]]}
        ELSE {CreateFailed}

----------------------------------------------------------------------------
(* main, main.rs 181-226, and gather_files, main.rs 94-115 *)

DefaultTextName == <<"_", "c", "o", "n", "c", "a", "t", "-", "o", "u", "t", "p", "u", "t", ".", "t", "x", "t">>
DefaultXmlName == <<"_", "c", "o", "n", "c", "a", "t", "-", "o", "u", "t", "p", "u", "t", ".", "x", "m", "l">>
FilesOpen == <<"<", "f", "i", "l", "e", "s", ">", "\n">>
FilesClose == <<"<", "/", "f", "i", "l", "e", "s", ">", "\n">>
FileOpen == <<"<", "f", "i", "l", "e", " ", "p", "a", "t", "h", "=", "\"">>
CdataOpen == <<"\"", ">", "<", "!", "[", "C", "D", "A", "T", "A", "[">>
FileClose == <<"]", "]", ">", "<", "/", "f", "i", "l", "e", ">", "\n">>
TreeOpen == <<"<", "t", "r", "e", "e", ">", "\n">>
TreeClose == <<"<", "/", "t", "r", "e", "e", ">", "\n">>

\* main.rs 186-192
out_name(o) ==
    IF o.output # None THEN o.output[2]
    ELSE IF o.text THEN DefaultTextName ELSE DefaultXmlName

\* traversal_done with a fault: the output is opened once the first root is done
traversal_done_after_first_root == root_i > 1 /\ stack = <<>>

\* the loop over opts.inputs, main.rs 182-185, has ended
traversal_done == root_i > Len(opts.inputs) /\ stack = <<>>

Top == stack[Len(stack)]

Collect(path) == IF should_include(path, opts) THEN Append(files, path) ELSE files

\* gather_files(path), main.rs 95-102, called with `callers` on the stack:
\* a file is filtered and collected, a directory that can be read gets a
\* frame, one that cannot ends the run, anything else is passed over
gather_call(path, callers) ==
    IF is_file(fs, path)
    THEN files' = Collect(path) /\ stack' = callers /\ pc' = pc
    ELSE IF is_dir(fs, path)
    THEN IF read_dir(fs, path).ok
         THEN /\ stack' = Append(callers, [path |-> path, entries |-> read_dir(fs, path).entries])
              /\ files' = files /\ pc' = pc
         ELSE pc' = "failed" /\ stack' = <<>> /\ files' = files
    ELSE files' = files /\ stack' = callers /\ pc' = pc

\* one turn of main's loop over the roots, main.rs 182-185; root_i moves on
\* when the call of gather_files has returned Ok
GatherRoot ==
    /\ pc = "gather"
    /\ stack = <<>>
    /\ root_i <= Len(opts.inputs)
    /\ gather_call(opts.inputs[root_i], <<>>)
    /\ root_i' = IF pc' = "gather" /\ stack' = <<>> THEN root_i + 1 ELSE root_i
    /\ UNCHANGED <<arg, ret, fs, snapshot, opts, file_i, writer>>

\* one turn of the loop over a directory's entries, main.rs 102-112
GatherEntry ==
    /\ pc = "gather"
    /\ stack # <<>>
    /\ Top.entries # <<>>
    /\ LET p       == Head(Top.entries)
           callers == [stack EXCEPT ![Len(stack)].entries = Tail(@)]
       IN  IF is_dir(fs, p) THEN gather_call(p, callers)
           ELSE IF is_file(fs, p)
           THEN files' = Collect(p) /\ stack' = callers /\ pc' = pc
           ELSE files' = files /\ stack' = callers /\ pc' = pc
    /\ UNCHANGED <<arg, ret, fs, snapshot, opts, root_i, file_i, writer>>

\* the loop over a directory's entries ends and gather_files returns Ok
GatherReturn ==
    /\ pc = "gather"
    /\ stack # <<>>
    /\ Top.entries = <<>>
    /\ stack' = SubSeq(stack, 1, Len(stack) - 1)
    /\ root_i' = IF stack' = <<>> THEN root_i + 1 ELSE root_i
    /\ UNCHANGED <<arg, ret, fs, snapshot, opts, pc, files, file_i, writer>>

OnDisk == fs[writer.node].content
Writer == [buf |-> writer.buf, disk |-> OnDisk]

\* the writer's state w becomes the state of the BufWriter and of the file
Written(w) ==
    /\ writer' = [writer EXCEPT !.buf = w.buf]
    /\ fs' = [fs EXCEPT ![writer.node].content = w.disk]

\* main returns the error; the BufWriter is dropped, which flushes it
FailWith(w) ==
    /\ pc' = "failed"
    /\ Written(flush(w))

\* File::create and the envelope's first line, main.rs 186-197
CreateOutput ==
    /\ pc = "gather"
    /\ traversal_done
    /\ \E r \in file_create(fs, <<out_name(opts)>>) :
          IF r.ok
          THEN LET w == write_pieces([buf |-> <<>>, disk |-> <<>>],
                                     IF opts.text THEN <<>> ELSE <<FilesOpen>>)
               IN  /\ fs' = [r.fs EXCEPT ![r.node].content = w.disk]
                   /\ writer' = [created |-> TRUE, node |-> r.node, buf |-> w.buf]
                   /\ pc' = "write"
                   /\ file_i' = 1
          ELSE pc' = "failed" /\ UNCHANGED <<fs, writer, file_i>>
    /\ UNCHANGED <<arg, ret, snapshot, opts, root_i, stack, files>>

\* one turn of the loop over the files, main.rs 198-210
WriteFile ==
    /\ pc = "write"
    /\ file_i <= Len(files)
    /\ LET f == files[file_i]
           r == read_to_string(fs, f)
       IN  IF ~r.ok THEN FailWith(Writer) /\ file_i' = file_i
           ELSE /\ Written(write_pieces(Writer,
                       IF opts.text THEN <<r.content, NewLine>>
                       ELSE <<FileOpen, path_str(f), CdataOpen, escape_xml(r.content), FileClose>>))
                /\ file_i' = file_i + 1
                /\ pc' = pc
    /\ UNCHANGED <<arg, ret, snapshot, opts, root_i, stack, files>>

\* the tree, the envelope's last line and the end of main, main.rs 211-226
WriteTail ==
    /\ pc = "write"
    /\ file_i > Len(files)
    /\ LET tree   == write_tree(fs, opts.inputs[1])
           closed(w) == flush(write_pieces(w, IF opts.text THEN <<>> ELSE <<FilesClose>>))
       IN  IF ~opts.tree THEN Written(closed(Writer)) /\ pc' = "done"
           ELSE IF opts.text
           THEN IF tree.ok
                THEN Written(closed(write_pieces(Writer, tree.out))) /\ pc' = "done"
                ELSE FailWith(write_pieces(Writer, tree.out))
           ELSE IF tree.ok
                THEN /\ Written(closed(write_pieces(Writer,
                            <<TreeOpen, escape_xml(Concat(tree.out)), NewLine, TreeClose>>)))
                     /\ pc' = "done"
                ELSE FailWith(write_pieces(Writer, <<TreeOpen>>))
    /\ UNCHANGED <<arg, ret, snapshot, opts, root_i, stack, files, file_i>>

----------------------------------------------------------------------------
(* The run of main.  The working directory holds the file a.t, the         *)
(* directory d (which may be unreadable) and perhaps the output of an      *)
(* earlier run; d holds the file b.t and perhaps the link l, to d itself,  *)
(* to a.t or to nothing.  Every enumeration order of both directories.     *)

NameA == <<"a", ".", "t">>
NameB == <<"b", ".", "t">>
NameD == <<"d">>
NameL == <<"l">>
NameM == <<"m">>

LinkKinds == {"none", "dir", "file", "dangling"}
LinkTarget(kind) == IF kind = "dir" THEN <<NameD>> ELSE IF kind = "file" THEN <<NameA>> ELSE <<NameM>>

TopNames(has_out) == {NameA, NameD} \cup (IF has_out THEN {DefaultTextName} ELSE {})
MidNames(link) == {NameB} \cup (IF link = "none" THEN {} ELSE {NameL})

RunFs(has_out, readable, link, top, mid) ==
    [p \in {<<>>} \cup {<<n>> : n \in TopNames(has_out)} \cup {<<NameD, n>> : n \in MidNames(link)} |->
        IF p = <<>> THEN DirNode(top, TRUE)
        ELSE IF p = <<NameD>> THEN DirNode(mid, readable)
        ELSE IF p = <<NameD, NameL>> THEN LinkNode(LinkTarget(link))
        ELSE IF p = <<NameA>> THEN FileNode(<<"x">>)
        ELSE IF p = <<NameD, NameB>> THEN FileNode(<<"<", "&">>)
        ELSE FileNode(<<"o", "l", "d">>)]

RunFileSystems ==
    UNION {{RunFs(has_out, readable, link, top, mid) :
                top \in Perms(TopNames(has_out)), mid \in Perms(MidNames(link))} :
           has_out \in BOOLEAN, readable \in BOOLEAN, link \in LinkKinds}

RootChoices == {<<CurDir>>, <<NameD>>, <<NameM>>}

\* main.rs 178-180: no root given means the working directory
RunInputs == {IF i = <<>> THEN << <<CurDir>> >> ELSE i : i \in SeqsUpTo(RootChoices, MaxRoots)}

RunOptions ==
    {[NoOpts EXCEPT !.inputs = i, !.text = t, !.tree = r, !.exts = x] :
        i \in RunInputs, t \in BOOLEAN, r \in BOOLEAN, x \in {<<>>, << <<"t">> >>}}

Init ==
    /\ fs \in RunFileSystems
    /\ snapshot = fs
    /\ opts \in RunOptions
    /\ pc = "gather"
    /\ root_i = 1
    /\ stack = <<>>
    /\ files = <<>>
    /\ file_i = 0
    /\ writer = NoWriter
    /\ arg = <<>>
    /\ ret = NoRet

Next ==
    \/ GatherRoot
    \/ GatherEntry
    \/ GatherReturn
    \/ CreateOutput
    \/ WriteFile
    \/ WriteTail

Spec == Init /\ [][Next]_vars

----------------------------------------------------------------------------
(* Specifications of the pure functions: Init draws the inputs, the one    *)
(* action calls the function.  main does not run: its variables rest.      *)

(* matches_pattern *)

MatchPatterns == SeqsUpTo({"*", ".", "r"}, MaxMatchLen)
MatchTexts == SeqsUpTo({"/", ".", "r"}, MaxMatchLen)

InitMatch ==
    /\ arg \in [pattern : MatchPatterns, text : MatchTexts]
    /\ ret = NoRet
    /\ pc = "call"
    /\ fs = NoFs
    /\ MainAtRest

CallMatchesPattern == Return(matches_pattern(arg.pattern, arg.text))

NextMatch == CallMatchesPattern

SpecMatch == InitMatch /\ [][NextMatch]_vars

(* should_include *)

FilterNames == SeqsUpTo({".", "e", "r"}, MaxNameLen) \ {<<>>, CurDir, ParentDir}
FilterPaths == {<<<<"a">>, n>> : n \in FilterNames}
FilterPatterns == SeqsUpTo({"*", "e"}, MaxPatLen)
FilterPatternLists == {<<>>} \cup {<<p>> : p \in FilterPatterns}
FilterExts == {<<>>, << <<"e">> >>}

FilterOptions ==
    {[NoOpts EXCEPT !.exts = x, !.includes = i, !.excludes = e, !.hidden = h] :
        x \in FilterExts, i \in FilterPatternLists, e \in FilterPatternLists, h \in BOOLEAN}

InitFilter ==
    /\ arg \in [path : FilterPaths, opts : FilterOptions]
    /\ ret = NoRet
    /\ pc = "call"
    /\ fs = NoFs
    /\ MainAtRest

CallShouldInclude == Return(should_include(arg.path, arg.opts))

NextFilter == CallShouldInclude

SpecFilter == InitFilter /\ [][NextFilter]_vars

(* escape_xml *)

XmlChars == {"&", "<", ">", ";", "a", "m", "p", "l", "t", "g"}

InitEscape ==
    /\ arg \in [text : SeqsUpTo(XmlChars, MaxTextLen)]
    /\ ret = NoRet
    /\ pc = "call"
    /\ fs = NoFs
    /\ MainAtRest

CallEscapeXml == Return(escape_xml(arg.text))

NextEscape == CallEscapeXml

SpecEscape == InitEscape /\ [][NextEscape]_vars

----------------------------------------------------------------------------
(* Claims about the pure functions *)

ExcludeMatches == AnyMatch(arg.opts.excludes, path_str(arg.path))
IncludeMatches == AnyMatch(arg.opts.includes, path_str(arg.path))

\* C1: whenever some exclude pattern matches the full path string,
\* should_include returns false, whatever the other options are, also when an
\* include pattern matches the same path.
C1_ExcludeAlwaysWins ==
    (pc = "returned" /\ ExcludeMatches) => ret = FALSE

\* should_include has returned for a path that passes the hidden, extension
\* and include rules and that an exclude pattern matches
C1_Witness ==
    /\ pc = "returned"
    /\ arg.opts.exts # <<>>
    /\ extension(arg.path) # None
    /\ InSeq(extension(arg.path)[2], arg.opts.exts)
    /\ arg.opts.includes # <<>>
    /\ IncludeMatches
    /\ ExcludeMatches
    /\ ret = FALSE

BaseName == arg.path[Len(arg.path)]
HasDot(name) == \E i \in 1..Len(name) : name[i] = "."
AfterLastDot(name) == Drop(name, LastDot(name))

\* the hidden, include and exclude rules all let the path through
OtherRulesPass ==
    /\ arg.opts.hidden \/ ~starts_with(BaseName, <<".">>)
    /\ arg.opts.includes = <<>> \/ IncludeMatches
    /\ ~ExcludeMatches

\* the extension rule as the claim states it
LastDotRule == HasDot(BaseName) /\ InSeq(AfterLastDot(BaseName), arg.opts.exts)

\* the extension rule with a base name whose only `.` is its first character
\* counted as having no extension
InnerDotRule ==
    HasDot(BaseName) /\ LastDot(BaseName) # 1 /\ InSeq(AfterLastDot(BaseName), arg.opts.exts)

\* C2 as stated: with extensions set, a path passes the extension rule
\* exactly when the text after the last `.` of its base name is one of the
\* extensions, base names that start with `.` included.
C2_LastDotRule ==
    (pc = "returned" /\ arg.opts.exts # <<>>) =>
        /\ ret => LastDotRule
        /\ OtherRulesPass => (ret = LastDotRule)

\* C2 amended: the same, except that a base name whose only `.` is its first
\* character (`.env`) has no extension and is rejected.
C2_InnerDotRule ==
    (pc = "returned" /\ arg.opts.exts # <<>>) =>
        /\ ret => InnerDotRule
        /\ OtherRulesPass => (ret = InnerDotRule)

\* `.e` with extensions = {e} and includeHidden: rejected by the extension rule
C2_Witness ==
    /\ pc = "returned"
    /\ BaseName = <<".", "e">>
    /\ arg.opts.hidden
    /\ InSeq(<<"e">>, arg.opts.exts)
    /\ OtherRulesPass
    /\ ret = FALSE

IsStarLiteral(p) == Len(p) >= 2 /\ p[1] = "*" /\ \A i \in 2..Len(p) : p[i] # "*"

\* C3: for a non-empty literal S without `*`, matches_pattern("*" + S, text)
\* is true exactly when text ends with S.
C3_StarLiteralIsSuffix ==
    (pc = "returned" /\ IsStarLiteral(arg.pattern)) =>
        (ret = ends_with(arg.text, Tail(arg.pattern)))

\* the reverse of the three substitutions, in the order the claim gives
unescape_xml(t) == replace(replace(replace(t, GtEntity, Gt), LtEntity, Lt), AmpEntity, Amp)

\* C7: escape_xml(s) holds no `<` and no `>`, every `&` in it starts one of
\* the three entities, and reversing the substitutions gives s back.
C7_EscapeRoundTrip ==
    pc = "returned" =>
        /\ \A i \in 1..Len(ret) : ret[i] \notin {"<", ">"}
        /\ \A i \in 1..Len(ret) : ret[i] = "&" =>
              \/ OccursAt(ret, AmpEntity, i - 1)
              \/ OccursAt(ret, LtEntity, i - 1)
              \/ OccursAt(ret, GtEntity, i - 1)
        /\ unescape_xml(ret) = arg.text

\* escape_xml has escaped a text that already held an entity
C7_Witness ==
    /\ pc = "returned"
    /\ arg.text = LtEntity
    /\ ret = <<"&", "a", "m", "p", ";", "l", "t", ";">>

----------------------------------------------------------------------------
(* write_tree on its own: a root with files, a hidden file and a directory *)
(* that holds files and a directory, every enumeration order of each.      *)

TreeDir == <<"d">>
TreeSub == <<"e">>
TreeTopNames == {<<"b">>, <<"a">>, <<".", "h">>, TreeDir}
TreeDirNames == {<<"c", ".", "t">>, <<"b">>, TreeSub}
TreeSubNames == {<<"a">>}

TreeFs(top, mid) ==
    [p \in {<<>>} \cup {<<n>> : n \in TreeTopNames} \cup {<<TreeDir, n>> : n \in TreeDirNames}
           \cup {<<TreeDir, TreeSub, n>> : n \in TreeSubNames} |->
        IF p = <<>> THEN DirNode(top, TRUE)
        ELSE IF p = <<TreeDir>> THEN DirNode(mid, TRUE)
        ELSE IF p = <<TreeDir, TreeSub>> THEN DirNode(<< <<"a">> >>, TRUE)
        ELSE FileNode(<<"x">>)]

TreeFileSystems == {TreeFs(top, mid) : top \in Perms(TreeTopNames), mid \in Perms(TreeDirNames)}

InitTree ==
    /\ fs \in TreeFileSystems
    /\ arg \in [root : {<<CurDir>>, <<TreeDir>>}]
    /\ ret = NoRet
    /\ pc = "call"
    /\ MainAtRest

CallWriteTree == Return(write_tree(fs, arg.root))

NextTree == CallWriteTree

SpecTree == InitTree /\ [][NextTree]_vars

\* a is before b in lexicographic order
LexBefore(a, b) ==
    \E k \in 1..(Len(b)) :
        /\ \A i \in 1..(k - 1) : i <= Len(a) /\ a[i] = b[i]
        /\ k - 1 <= Len(a)
        /\ (k = Len(a) + 1 \/ Byte(a[k]) < Byte(b[k]))

Indent(depth) == [i \in 1..(2 * depth) |-> " "]

\* the listing the claim describes of the names `names` of the directory `dir`
RECURSIVE Listing(_, _, _, _)
Listing(f, dir, names, depth) ==
    IF names = {} THEN <<>>
    ELSE LET n == CHOOSE n \in names : \A m \in names : m = n \/ LexBefore(n, m)
         IN  Indent(depth) \o n \o NewLine
             \o (IF f[Append(dir, n)].kind = "dir"
                 THEN Listing(f, Append(dir, n),
                              {f[Append(dir, n)].entries[i] : i \in 1..Len(f[Append(dir, n)].entries)},
                              depth + 1)
                 ELSE <<>>)
             \o Listing(f, dir, names \ {n}, depth)

RealRoot == IF arg.root = <<CurDir>> THEN <<>> ELSE arg.root

\* C8: write_tree emits the header and then every entry of every directory
\* it visits, ascending by path whatever the enumeration order, the base name
\* after two spaces per level, a directory's subtree right after its line.
C8_TreeIsSortedListing ==
    pc = "returned" =>
        /\ ret.ok
        /\ Concat(ret.out) =
              TreeHeader \o Listing(fs, RealRoot, {fs[RealRoot].entries[i] : i \in 1..Len(fs[RealRoot].entries)}, 0)

\* the tree of a root whose entries the filesystem enumerates out of order,
\* the directory before the hidden file
C8_Witness ==
    /\ pc = "returned"
    /\ arg.root = <<CurDir>>
    /\ fs[<<>>].entries[1] = TreeDir
    /\ fs[<<>>].entries[2] = <<"b">>
    /\ fs[<<TreeDir>>].entries[1] = TreeSub
    /\ ret.ok

----------------------------------------------------------------------------
(* Claims about the run of main *)

\* the path names a node that exists and, if a directory, can be listed
Usable(f, path) ==
    /\ metadata(f, path).ok
    /\ f[metadata(f, path).node].kind = "dir" => f[metadata(f, path).node].readable

\* C4: a root that does not exist or cannot be read makes the run fail; no
\* run with such a root completes successfully.
C4_BadRootFailsRun ==
    pc = "done" => \A i \in 1..Len(opts.inputs) : Usable(snapshot, opts.inputs[i])

\* the path reaches its node through real directories only, no link on the way
LinkFree(f, path) == resolve(f, <<>>, path, 0).ok

\* C5: gather_files never descends through a symbolic link and collects
\* regular files only, each reached through real directories.
C5_NoLinkFollowed ==
    /\ \A i \in 1..Len(stack) : LinkFree(fs, stack[i].path)
    /\ \A i \in 1..Len(files) :
          /\ LinkFree(fs, files[i])
          /\ fs[resolve(fs, <<>>, files[i], 0).node].kind = "file"

\* C6: after a successful plain-text run without tree, the output file is the
\* contents the selected files had when the traversal ran, in traversal
\* order, each followed by a line terminator.
C6_OutputIsSnapshotConcat ==
    (pc = "done" /\ opts.text /\ ~opts.tree) =>
        OnDisk = Concat([i \in 1..Len(files) |->
                            read_to_string(snapshot, files[i]).content \o NewLine])

\* the longest chain of nested real directories, the working directory included
RealDepth(f) ==
    LET depths == {Len(p) + 1 : p \in {q \in DOMAIN f : f[q].kind = "dir"}}
    IN  CHOOSE d \in depths : \A e \in depths : e <= d

\* C9: the recursion of gather_files is bounded by the real directory depth,
\* which is why it terminates, also with a link that points to the directory
\* that holds it: no more calls are nested than real directories are.
C9_RecursionWithinRealDepth == Len(stack) <= RealDepth(fs)

AllRootsTraversed == root_i > Len(opts.inputs)

\* C10: the output file is created or truncated only after every root has
\* been traversed; while roots remain, and when the traversal of one has
\* failed, the filesystem is as the run found it.
C10_OutputOpenedAfterTraversal ==
    /\ writer.created => AllRootsTraversed
    /\ ~AllRootsTraversed => fs = snapshot

\* the traversal of the second root has failed after files of the first were
\* collected, and the output of the earlier run is as it was
C10_Witness ==
    /\ pc = "failed"
    /\ root_i = 2
    /\ files # <<>>
    /\ opts.text
    /\ <<DefaultTextName>> \in DOMAIN fs
    /\ fs[<<DefaultTextName>>].content = <<"o", "l", "d">>

====
